---- MODULE Spec2Model ----
\* Model of transcribe.py: the resumable batch loop of main(), its checkpoint
\* file (load_progress / save_progress) and the summary notification.
EXTENDS Integers, Sequences, FiniteSets, TLC

\* ---------------------------------------------------------------- bounds
\* Largest number of rows (header included) a sheet of the model holds.
MaxRows == 3

\* ---------------------------------------------------------- configuration
\* ANSWER_COLUMN_MAP, in dict insertion order: <<audio column, answer column>>.
ANSWER_COLUMN_MAP == << <<12, 4>>, <<13, 6>>, <<14, 8>>, <<15, 10>> >>

NumPairs == Len(ANSWER_COLUMN_MAP)

AudioCols == {ANSWER_COLUMN_MAP[i][1] : i \in 1..NumPairs}

AnswerCols == {ANSWER_COLUMN_MAP[i][2] : i \in 1..NumPairs}

\* Width of a full row of the sheet: the rightmost configured column (O).
SheetWidth == 15

\* ------------------------------------------------------- strings, formulas
\* A Python str is a sequence of one-character strings; a cell's raw value is
\* None or a str.
None == [none |-> TRUE, s |-> <<>>]

Str(chars) == [none |-> FALSE, s |-> chars]

\* Python truthiness of an Optional[str]: None and "" are falsy.
Truthy(v) == (~v.none) /\ (v.s # <<>>)

\* needle in hay
Contains(hay, needle) ==
    \E i \in 0..(Len(hay) - Len(needle)) :
        \A j \in 1..Len(needle) : hay[i + j] = needle[j]

HYPERLINK == <<"H", "Y", "P", "E", "R", "L", "I", "N", "K">>

\* The character class [a-zA-Z0-9_-] of the file-id pattern.
IdChars ==
    {"a","b","c","d","e","f","g","h","i","j","k","l","m","n","o","p","q","r",
     "s","t","u","v","w","x","y","z",
     "A","B","C","D","E","F","G","H","I","J","K","L","M","N","O","P","Q","R",
     "S","T","U","V","W","X","Y","Z",
     "0","1","2","3","4","5","6","7","8","9","_","-"}

\* The pattern d/([a-zA-Z0-9_-]+)/ matches at position i with a group of n
\* characters. "/" is not in the class, so n is unique when it exists.
MatchAt(s, i, n) ==
    /\ i + n + 2 <= Len(s)
    /\ s[i] = "d"
    /\ s[i + 1] = "/"
    /\ \A k \in 1..n : s[i + 1 + k] \in IdChars
    /\ s[i + n + 2] = "/"

MatchStarts(s) == {i \in 1..Len(s) : \E n \in 1..Len(s) : MatchAt(s, i, n)}

Min(S) == CHOOSE x \in S : \A y \in S : x <= y

\* re.search(r'd/([a-zA-Z0-9_-]+)/', formula): the leftmost match, or no match.
re_search(s) ==
    IF MatchStarts(s) = {}
    THEN [matched |-> FALSE, group |-> <<>>]
    ELSE LET i == Min(MatchStarts(s))
             n == CHOOSE n \in 1..Len(s) : MatchAt(s, i, n)
         IN  [matched |-> TRUE, group |-> SubSeq(s, i + 2, i + 1 + n)]

\* Mutation: the answer cell is not looked at.
IsPendingAnyAnswer(formula, answer_cell) ==
    Truthy(formula) /\ Contains(formula.s, HYPERLINK)

\* The pending test of the row loop.
IsPending(formula, answer_cell) ==
    Truthy(formula) /\ Contains(formula.s, HYPERLINK) /\ answer_cell = ""

\* ------------------------------------------------------------ the sheet
\* A row of the live sheet: the display values, and the raw (FORMULA render)
\* value of each audio column.
F_LINK ==
    Str(<<"=","H","Y","P","E","R","L","I","N","K","(","x","/","d","/",
          "f","_","1","-","A","/","v",")">>)

F_NOID ==
    Str(<<"=","H","Y","P","E","R","L","I","N","K","(","x","/","d","/","/","v",")">>)

F_TEXT == Str(<<"x","/","d","/","f","9","/">>)

F_EMPTY == Str(<<>>)

Display(f) ==
    IF ~Truthy(f) THEN ""
    ELSE IF Contains(f.s, HYPERLINK) THEN "Audio" ELSE "text"

PairOfAnswerCol(c) == CHOOSE i \in 1..NumPairs : ANSWER_COLUMN_MAP[i][2] = c

PairOfAudioCol(c) == CHOOSE i \in 1..NumPairs : ANSWER_COLUMN_MAP[i][1] = c

\* A full-width data row with answers a and raw audio values f, in pair order.
MkRow(a, f) ==
    [disp |-> [c \in 1..SheetWidth |->
                 IF c \in AnswerCols THEN a[PairOfAnswerCol(c)]
                 ELSE IF c \in AudioCols THEN Display(f[PairOfAudioCol(c)])
                 ELSE ""],
     form |-> [c \in AudioCols |-> f[PairOfAudioCol(c)]]]

HeaderRow ==
    [disp |-> [c \in 1..SheetWidth |-> "header"],
     form |-> [c \in AudioCols |-> Str(<<"A","u","d","i","o">>)]]

\* Data rows the initial sheet is built from: every combination of
\* (marker / no marker) x (answer empty / answer present) occurs, with a
\* reference that parses and one that does not, and a row shorter than the
\* answer columns.
RowA == MkRow(<<"", "old", "", "old">>, <<F_LINK, F_LINK, F_NOID, None>>)

RowB == MkRow(<<"", "", "", "">>, <<F_TEXT, F_EMPTY, None, F_LINK>>)

RowC == [disp |-> <<"date", "name">>, form |-> [c \in AudioCols |-> None]]

DataRows == {RowA, RowB, RowC}

Sheets ==
    UNION {{<<HeaderRow>> \o d : d \in [1..n -> DataRows]} : n \in 0..(MaxRows - 1)}
        \cup {<<>>}

\* sheet.get_all_values(): the display values of every row.
get_all_values(sh) == [i \in 1..Len(sh) |-> sh[i].disp]

\* sheet.cell(row, col, value_render_option='FORMULA').value
cell_formula(sh, r, c) == IF r \in 1..Len(sh) THEN sh[r].form[c] ELSE None

\* sheet.update_cell(row, col, text)
update_cell(sh, r, c, text) ==
    LET d == sh[r].disp
        w == IF Len(d) > c THEN Len(d) ELSE c
    IN  [sh EXCEPT ![r].disp =
            [j \in 1..w |-> IF j = c THEN text ELSE IF j <= Len(d) THEN d[j] ELSE ""]]

\* row[answer_col_index] if len(row) > answer_col_index else ""
CellOrEmpty(row, col) == IF Len(row) > col - 1 THEN row[col] ELSE ""

\* ------------------------------------------------------ checkpoint file
NoFile == [exists |-> FALSE, last_processed_row |-> 0]

\* Mutation: the checkpoint file is ignored.
load_default(file) == 1

\* Mutation: without a file the scan starts at the header row.
load_from_header(file) == IF file.exists THEN file.last_processed_row ELSE 0

load_progress(file) == IF file.exists THEN file.last_processed_row ELSE 1

save_progress(last_row) == [exists |-> TRUE, last_processed_row |-> last_row]

\* Mutation: the position in the slice is saved, not the row index.
CheckpointSliceIndex(row_idx, start) == row_idx - start

\* Mutation: the row after the one just handled is saved.
CheckpointNextRow(row_idx, start) == row_idx + 1

\* Mutation: the row before the one just handled is saved.
CheckpointPrevRow(row_idx, start) == row_idx - 1

\* The value main() passes to save_progress after a row.
CheckpointValue(row_idx, start) == row_idx

\* Mutation: the checkpoint is ignored and every data row is scanned.
RowsToScanAll(rows, start) == 2..Len(rows)

\* Mutation: the slice starts at the checkpoint row itself.
RowsToScanFromStart(rows, start) == start..Len(rows)

\* The 1-based indices enumerate(all_rows[start_row:], start=start_row + 1) yields.
RowsToScan(rows, start) == (start + 1)..Len(rows)

\* Mutation: the inner loop is left after its first pair.
PairsDoneEarly(p) == TRUE

\* The inner loop over ANSWER_COLUMN_MAP ends after its last pair.
PairsDone(p) == p = NumPairs

\* ----------------------------------------------------------- statistics
InitStats ==
    [total_processed |-> 0, successful |-> 0, failed |-> 0, errors |-> <<>>,
     last_row |-> 0]

\* f"Row {row_index}: {detail}"
RowMsg(r, detail) == [prefix |-> "Row", row |-> r, detail |-> detail]

\* f"Error accessing Google Sheet: {e!r}"
FatalMsg(detail) == [prefix |-> "Error accessing Google Sheet", row |-> 0, detail |-> detail]

\* Mutation: a pending cell is not counted.
CountPendingNot(st) == st

\* stats["total_processed"] += 1
CountPending(st) == [st EXCEPT !.total_processed = @ + 1]

\* Mutation: a written cell is not counted as successful.
CountSuccessNot(st) == st

\* stats["successful"] += 1
CountSuccess(st) == [st EXCEPT !.successful = @ + 1]

\* The detail of the error entry of a reference without a file id.
ParseDetail == "Could not parse File ID from cell formula"

\* Mutation: the failure is counted but its error entry is not appended.
RecordFailureNoEntry(st, msg) == [st EXCEPT !.failed = @ + 1]

\* stats["failed"] += 1; stats["errors"].append(msg)
RecordFailure(st, msg) ==
    [st EXCEPT !.failed = @ + 1, !.errors = Append(@, msg)]

\* ------------------------------------------------------------- state
VARIABLES
    sheet,            \* the live spreadsheet (row source)
    progress_file,    \* PROGRESS_FILE on disk
    pc,               \* where main() stands; "idle" when no process runs
    stats,            \* stats dict of main()
    all_rows,         \* snapshot returned by get_all_values()
    start_row,        \* progress["last_processed_row"]
    row_index,        \* loop variable of the row loop
    pair,             \* position of the inner loop in ANSWER_COLUMN_MAP
    formula,          \* raw value read for the current audio cell
    file_id,          \* match.group(1)
    transcribed_text, \* transcript.text
    outcome,          \* how the current / most recent run ended
    runStart,         \* checkpoint load_progress would return when the run began
    sheet0,           \* the live sheet when the run began
    scanned,          \* rows whose loop iteration this run began
    touched,          \* rows this run made a per-cell external call for
    finished,         \* <<row, pair>> cells this run brought to a terminal outcome
    saves,            \* the values this run wrote to the checkpoint, in order
    emails,           \* calls of send_summary_email in this run
    faults,           \* failures the collaborators raised (and unparsable references served)
    writes,           \* update_cell calls the sheet accepted in this run
    openFail,         \* which call of the opening sequence failed in this run, or "none"
    stoppedRow,       \* row whose iteration was under way when the run was cut short
    prev,             \* summary of the run before this one
    exit_status,      \* statuses the process exited with; none while it runs
    calls,            \* per-cell calls this run made, in order, with their success
    settled,          \* cells that failed softly in a run, of any so far, that then wrote the checkpoint of their row
    crashLeft,        \* soft failures of the row in which an uncaught exception ended a run, until that row is checkpointed
    written,          \* target cells <<row, col>> any run so far has written
    filled,           \* target cells any run so far has written a non-empty text to
    file0,            \* PROGRESS_FILE when the run began
    loaded,           \* whether this run has called load_progress()
    mailResult,       \* how send_summary_email went in this run, or "none"
    finalStats,       \* the stats dict when main() ended by itself
    rewritten         \* target cells this run wrote that an earlier run had written

durable == <<sheet, progress_file>>

memory ==
    <<pc, stats, all_rows, start_row, row_index, pair, formula, file_id,
      transcribed_text>>

history ==
    <<outcome, runStart, sheet0, scanned, touched, finished, saves, emails,
      faults, writes, openFail, stoppedRow, prev,
      exit_status,
      calls,
      settled,
      crashLeft,
      written,
      filled,
      file0,
      loaded,
      mailResult,
      finalStats,
      rewritten>>

vars == <<durable, memory, history>>

Running == {"open", "load", "cell", "fetch", "transcribe", "write", "save", "email",
            "email_fatal"}

NoPrev == [outcome |-> "other", scanned |-> {}, row |-> 0]

\* What is remembered of a run once the next one starts: whether it completed
\* its row loop, or was cut short (killed, or ended by an uncaught exception)
\* and then which rows it had begun and which one was under way.
Summary(how, begun, row) ==
    IF how \in {"killed", "crashed"} THEN [outcome |-> "cut", scanned |-> begun, row |-> row]
    ELSE IF how = "completed" THEN [outcome |-> "completed", scanned |-> {}, row |-> 0]
    ELSE NoPrev

\* No process is running; the checkpoint file is absent or holds a value an
\* earlier run saved.
Init ==
    /\ sheet \in Sheets
    /\ progress_file \in {NoFile} \cup {save_progress(k) : k \in 2..MaxRows}
    /\ pc = "idle"
    /\ stats = InitStats
    /\ all_rows = <<>>
    /\ start_row = 0
    /\ row_index = 0
    /\ pair = 0
    /\ formula = None
    /\ file_id = <<>>
    /\ transcribed_text = ""
    /\ outcome = "none"
    /\ runStart = 0
    /\ sheet0 = <<>>
    /\ scanned = {}
    /\ touched = {}
    /\ finished = {}
    /\ saves = <<>>
    /\ emails = 0
    /\ faults = <<>>
    /\ writes = <<>>
    /\ openFail = "none"
    /\ stoppedRow = 0
    /\ prev = NoPrev
    /\ exit_status = <<>>
    /\ calls = <<>>
    /\ settled = {}
    /\ crashLeft = {}
    /\ written = {}
    /\ filled = {}
    /\ file0 = NoFile
    /\ loaded = FALSE
    /\ mailResult = "none"
    /\ finalStats = InitStats
    /\ rewritten = {}

AudioCol == ANSWER_COLUMN_MAP[pair][1]

AnswerCol == ANSWER_COLUMN_MAP[pair][2]

\* Row in progress when a run stops: the row of the loop, if the loop is running.
RowInProgress ==
    IF pc \in {"cell", "fetch", "transcribe", "write", "save"} THEN row_index ELSE 0

\* Status the interpreter exits with: main() returns nothing and the module
\* ends after the call, so every return gives 0; an uncaught exception gives
\* 1; a killed process reports the signal.
ExitStatus(how) ==
    IF how = "killed" THEN <<137>>
    ELSE IF how = "crashed" THEN <<1>>
    ELSE <<0>>

\* The process ends (return, uncaught exception or kill): its memory is gone.
Exit(how) ==
    /\ pc' = "idle"
    /\ outcome' = how
    /\ stoppedRow' = IF how \in {"killed", "crashed"} THEN RowInProgress ELSE 0
    /\ exit_status' = ExitStatus(how)
    /\ stats' = InitStats
    /\ all_rows' = <<>>
    /\ start_row' = 0
    /\ row_index' = 0
    /\ pair' = 0
    /\ formula' = None
    /\ file_id' = <<>>
    /\ transcribed_text' = ""

\* main() up to authenticate(): a new process starts, its stats dict is fresh.
Authenticate ==
    /\ pc = "idle"
    /\ prev' = Summary(outcome, scanned, stoppedRow)
    /\ stoppedRow' = 0
    /\ faults' = <<>>
    /\ writes' = <<>>
    /\ openFail' = "none"
    /\ runStart' = load_progress(progress_file)
    /\ sheet0' = sheet
    /\ scanned' = {}
    /\ touched' = {}
    /\ finished' = {}
    /\ saves' = <<>>
    /\ emails' = 0
    /\ calls' = <<>>
    /\ rewritten' = {}
    /\ file0' = progress_file
    /\ loaded' = FALSE
    /\ mailResult' = "none"
    /\ finalStats' = InitStats
    /\ \E ok \in BOOLEAN :
        IF ok THEN pc' = "open" /\ outcome' = "running" /\ exit_status' = <<>>
        ELSE pc' = "idle" /\ outcome' = "authfail" /\ exit_status' = ExitStatus("authfail")
    /\ UNCHANGED <<stats, all_rows, start_row, row_index, pair, formula, file_id,
                   transcribed_text,
                   settled,
                   crashLeft,
                   written,
                   filled>>
    /\ UNCHANGED durable

\* Mutation: the except branch returns without the summary notification.
OpenSheetSilent ==
    /\ pc = "open"
    /\ \E fail \in {"none", "open_by_key", "worksheet", "get_all_values"} :
        /\ openFail' = fail
        /\ IF fail = "none"
           THEN /\ all_rows' = get_all_values(sheet)
                /\ pc' = "load"
                /\ UNCHANGED <<stats, start_row, row_index, pair, formula, file_id,
                               transcribed_text, outcome, stoppedRow, exit_status,
                               finalStats>>
           ELSE Exit("fatal") /\ finalStats' = stats
    /\ UNCHANGED <<durable, runStart, sheet0, scanned, touched, finished, saves,
                   emails, faults, writes, prev,
                   calls,
                   settled,
                   crashLeft,
                   written,
                   filled,
                   file0,
                   loaded,
                   mailResult,
                   rewritten>>

\* Mutation: the except branch does not return; main() goes on to load_progress().
OpenSheetFallThrough ==
    /\ pc = "open"
    /\ \E fail \in {"none", "open_by_key", "worksheet", "get_all_values"} :
        /\ openFail' = fail
        /\ IF fail = "none"
           THEN /\ all_rows' = get_all_values(sheet)
                /\ pc' = "load"
                /\ stats' = stats
           ELSE /\ stats' = [stats EXCEPT !.errors = Append(@, FatalMsg(fail))]
                /\ pc' = "load"
                /\ all_rows' = all_rows
    /\ UNCHANGED <<durable, start_row, row_index, pair, formula, file_id,
                   transcribed_text, outcome, runStart, sheet0, scanned, touched,
                   finished, saves, emails, faults, writes, stoppedRow, prev,
                   exit_status,
                   calls,
                   settled,
                   crashLeft,
                   written,
                   filled,
                   file0,
                   loaded,
                   mailResult,
                   finalStats,
                   rewritten>>

\* open_by_key, worksheet, get_all_values inside the try of main().
OpenSheet ==
    /\ pc = "open"
    /\ \E fail \in {"none", "open_by_key", "worksheet", "get_all_values"} :
        /\ openFail' = fail
        /\ IF fail = "none"
           THEN /\ all_rows' = get_all_values(sheet)
                /\ pc' = "load"
                /\ stats' = stats
           ELSE /\ stats' = [stats EXCEPT !.errors = Append(@, FatalMsg(fail))]
                /\ pc' = "email_fatal"
                /\ all_rows' = all_rows
    /\ UNCHANGED <<durable, start_row, row_index, pair, formula, file_id,
                   transcribed_text, outcome, runStart, sheet0, scanned, touched,
                   finished, saves, emails, faults, writes, stoppedRow, prev,
                   exit_status,
                   calls,
                   settled,
                   crashLeft,
                   written,
                   filled,
                   file0,
                   loaded,
                   mailResult,
                   finalStats,
                   rewritten>>

\* The loop header: the next row enumerate() yields after row r, or 0.
NextRow(rows, start, r) ==
    LET rest == {x \in RowsToScan(rows, start) : x > r}
    IN  IF rest = {} THEN 0 ELSE Min(rest)

\* Control moves to row r of the loop (stats["last_row"] = row_index), or past
\* the loop when r = 0.
GoToRow(r, st) ==
    IF r = 0
    THEN /\ pc' = "email"
         /\ stats' = st
         /\ UNCHANGED <<row_index, pair, scanned>>
    ELSE /\ pc' = "cell"
         /\ row_index' = r
         /\ pair' = 1
         /\ stats' = [st EXCEPT !.last_row = r]
         /\ scanned' = scanned \cup {r}

\* progress = load_progress(); start_row = ...; the first iteration begins.
LoadProgress ==
    /\ pc = "load"
    /\ start_row' = load_progress(progress_file)
    /\ loaded' = TRUE
    /\ GoToRow(NextRow(all_rows, load_progress(progress_file), 0), stats)
    /\ UNCHANGED <<durable, all_rows, formula, file_id, transcribed_text,
                   outcome, runStart, sheet0, touched, finished, saves, emails,
                   faults, writes, openFail, stoppedRow, prev,
                   exit_status,
                   calls,
                   settled,
                   crashLeft,
                   written,
                   filled,
                   file0,
                   mailResult,
                   finalStats,
                   rewritten>>

\* The current pair reached a terminal outcome: on to the next pair, or to the
\* checkpoint write of the row.
AdvancePair ==
    /\ finished' = finished \cup {<<row_index, pair>>}
    /\ IF PairsDone(pair)
       THEN pc' = "save" /\ pair' = pair
       ELSE pc' = "cell" /\ pair' = pair + 1

\* except Exception as e: the failure is recorded and the loop goes on.
SoftFailure(detail) ==
    /\ stats' = RecordFailure(stats, RowMsg(row_index, detail))
    /\ faults' = Append(faults, [row |-> row_index, pair |-> pair, kind |-> detail])
    /\ AdvancePair

\* One call made for the current cell: "read" is sheet.cell, "parse" the
\* re.search on the reference of a pending cell, "fetch", "transcribe" and
\* "write" the three collaborators.
Call(op, ok) == [op |-> op, row |-> row_index, pair |-> pair, ok |-> ok]

\* sheet.cell(...).value, the pending test and the file-id extraction.
ReadCell ==
    /\ pc = "cell"
    /\ touched' = touched \cup {row_index}
    /\ \E ok \in BOOLEAN :
        IF ~ok
        THEN \* sheet.cell raises outside the try: the exception leaves main()
             /\ Exit("crashed")
             /\ finalStats' = stats
             /\ calls' = Append(calls, Call("read", FALSE))
             /\ crashLeft' = {<<faults[i].row, faults[i].pair>> :
                                   i \in {j \in 1..Len(faults) : faults[j].row = row_index}}
             /\ UNCHANGED <<finished, faults>>
        ELSE LET f == cell_formula(sheet, row_index, AudioCol)
                 answer_cell == CellOrEmpty(all_rows[row_index], AnswerCol)
                 counted == CountPending(stats)
                 match == re_search(f.s)
             IN  /\ formula' = f
                 /\ UNCHANGED <<outcome, stoppedRow, exit_status, all_rows, start_row,
                                row_index, transcribed_text, crashLeft, finalStats>>
                 /\ calls' = IF IsPending(f, answer_cell)
                              THEN calls \o <<Call("read", TRUE), Call("parse", match.matched)>>
                              ELSE Append(calls, Call("read", TRUE))
                 /\ IF ~IsPending(f, answer_cell)
                    THEN /\ stats' = stats
                         /\ UNCHANGED <<file_id, faults>>
                         /\ AdvancePair
                    ELSE IF ~match.matched
                    THEN /\ stats' = RecordFailure(counted, RowMsg(row_index, ParseDetail))
                         /\ faults' = Append(faults,
                                [row |-> row_index, pair |-> pair, kind |-> ParseDetail])
                         /\ file_id' = file_id
                         /\ AdvancePair
                    ELSE /\ stats' = counted
                         /\ file_id' = match.group
                         /\ pc' = "fetch"
                         /\ UNCHANGED <<pair, finished, faults>>
    /\ UNCHANGED <<durable, runStart, sheet0, scanned, saves, emails, writes,
                   openFail, prev,
                   settled,
                   written,
                   filled,
                   file0,
                   loaded,
                   mailResult,
                   rewritten>>

\* Mutation: a failed download is tried again.
FetchRetry ==
    /\ pc = "fetch"
    /\ touched' = touched \cup {row_index}
    /\ \E ok \in BOOLEAN :
        /\ calls' = Append(calls, Call("fetch", ok))
        /\ pc' = IF ok THEN "transcribe" ELSE "fetch"
        /\ UNCHANGED <<stats, pair, finished, faults>>
    /\ UNCHANGED <<durable, all_rows, start_row, row_index, formula, file_id,
                   transcribed_text, outcome, runStart, sheet0, scanned, saves,
                   emails, writes, openFail, stoppedRow, prev, exit_status,
                   settled,
                   crashLeft,
                   written,
                   filled,
                   file0,
                   loaded,
                   mailResult,
                   finalStats,
                   rewritten>>

\* drive_service.files().get_media(fileId=file_id).execute()
Fetch ==
    /\ pc = "fetch"
    /\ touched' = touched \cup {row_index}
    /\ \E ok \in BOOLEAN :
        /\ calls' = Append(calls, Call("fetch", ok))
        /\ IF ok THEN pc' = "transcribe" /\ UNCHANGED <<stats, pair, finished, faults>>
           ELSE SoftFailure("fetch failed")
    /\ UNCHANGED <<durable, all_rows, start_row, row_index, formula, file_id,
                   transcribed_text, outcome, runStart, sheet0, scanned, saves,
                   emails, writes, openFail, stoppedRow, prev,
                   exit_status,
                   settled,
                   crashLeft,
                   written,
                   filled,
                   file0,
                   loaded,
                   mailResult,
                   finalStats,
                   rewritten>>

\* Texts the transcription service returns: silence gives the empty text.
Transcripts == {"", "words"}

\* openai.audio.transcriptions.create(...)
Transcribe ==
    /\ pc = "transcribe"
    /\ touched' = touched \cup {row_index}
    /\ \/ \E t \in Transcripts :
            /\ transcribed_text' = t
            /\ pc' = "write"
            /\ calls' = Append(calls, Call("transcribe", TRUE))
            /\ UNCHANGED <<stats, pair, finished, faults>>
       \/ /\ SoftFailure("transcription failed")
          /\ calls' = Append(calls, Call("transcribe", FALSE))
          /\ UNCHANGED transcribed_text
    /\ UNCHANGED <<durable, all_rows, start_row, row_index, formula, file_id,
                   outcome, runStart, sheet0, scanned, saves, emails, writes, openFail,
                   stoppedRow, prev,
                   exit_status,
                   settled,
                   crashLeft,
                   written,
                   filled,
                   file0,
                   loaded,
                   mailResult,
                   finalStats,
                   rewritten>>

\* sheet.update_cell(row_index, answer_col, transcribed_text)
UpdateCell ==
    /\ pc = "write"
    /\ touched' = touched \cup {row_index}
    /\ \/ /\ sheet' = update_cell(sheet, row_index, AnswerCol, transcribed_text)
          /\ writes' = Append(writes, <<row_index, AnswerCol, transcribed_text>>)
          /\ stats' = CountSuccess(stats)
          /\ calls' = Append(calls, Call("write", TRUE))
          /\ written' = written \cup {<<row_index, AnswerCol>>}
          /\ rewritten' = rewritten \cup (written \cap {<<row_index, AnswerCol>>})
          /\ filled' = IF transcribed_text = "" THEN filled
                       ELSE filled \cup {<<row_index, AnswerCol>>}
          /\ AdvancePair
          /\ UNCHANGED faults
       \/ /\ SoftFailure("update_cell failed")
          /\ calls' = Append(calls, Call("write", FALSE))
          /\ UNCHANGED <<sheet, writes, written, filled, rewritten>>
    /\ UNCHANGED <<progress_file, all_rows, start_row, row_index, formula, file_id,
                   transcribed_text, outcome, runStart, sheet0, scanned, saves,
                   emails, openFail, stoppedRow, prev,
                   exit_status,
                   settled,
                   crashLeft,
                   file0,
                   loaded,
                   mailResult,
                   finalStats>>

\* save_progress(row_index) after the pairs of a row; the next iteration begins.
SaveProgress ==
    /\ pc = "save"
    /\ progress_file' = save_progress(CheckpointValue(row_index, start_row))
    /\ saves' = Append(saves, CheckpointValue(row_index, start_row))
    /\ crashLeft' = {}
    /\ settled' = settled \cup {<<faults[i].row, faults[i].pair>> :
                                   i \in {j \in 1..Len(faults) : faults[j].row = row_index}}
    /\ GoToRow(NextRow(all_rows, start_row, row_index), stats)
    /\ UNCHANGED <<sheet, all_rows, start_row, formula, file_id, transcribed_text,
                   outcome, runStart, sheet0, touched, finished, emails, faults,
                   writes, openFail, stoppedRow, prev,
                   exit_status,
                   calls,
                   written,
                   filled,
                   file0,
                   loaded,
                   mailResult,
                   finalStats,
                   rewritten>>

\* Mutation: a failed send is added to the error list of the run.
AfterSendRecordsFailure(st, result) ==
    IF result = "smtp_failed"
    THEN [st EXCEPT !.errors = Append(@, FatalMsg("email"))]
    ELSE st

\* The stats dict after send_summary_email(stats): the function reads it for
\* the body of the message and assigns nothing in it, whatever the result.
AfterSend(st, result) == st

\* send_summary_email(stats): a no-op without configuration, and an SMTP
\* failure is caught inside; main() returns after it.
SendSummaryEmail ==
    /\ pc \in {"email", "email_fatal"}
    /\ \E result \in {"unconfigured", "sent", "smtp_failed"} :
        /\ emails' = emails + 1
        /\ mailResult' = result
        /\ finalStats' = AfterSend(stats, result)
        /\ Exit(IF pc = "email" THEN "completed" ELSE "fatal")
    /\ UNCHANGED <<durable, runStart, sheet0, scanned, touched, finished, saves,
                   faults, writes, openFail, prev,
                   calls,
                   settled,
                   crashLeft,
                   written,
                   filled,
                   file0,
                   loaded,
                   rewritten>>

\* The process is killed between two external calls: memory is lost, the sheet
\* and the checkpoint file stay as they are.
Kill ==
    /\ pc \in Running
    /\ Exit("killed")
    /\ UNCHANGED <<durable, runStart, sheet0, scanned, touched, finished, saves,
                   emails, faults, writes, openFail, prev,
                   calls,
                   settled,
                   crashLeft,
                   written,
                   filled,
                   file0,
                   loaded,
                   mailResult,
                   finalStats,
                   rewritten>>

Next ==
    \/ Authenticate
    \/ OpenSheet
    \/ LoadProgress
    \/ ReadCell
    \/ Fetch
    \/ Transcribe
    \/ UpdateCell
    \/ SaveProgress
    \/ SendSummaryEmail
    \/ Kill

Spec == Init /\ [][Next]_vars

\* ------------------------------------------------------------ claims
\* Vocabulary of the claims, stated without the operators main() is modelled by.
InLoop == pc \in {"cell", "fetch", "transcribe", "write", "save"}

\* The checkpoint on disk; an absent file counts as its default.
PersistedCheckpoint ==
    IF progress_file.exists THEN progress_file.last_processed_row ELSE 1

PairsOf(r) == {p \in 1..NumPairs : <<r, p>> \in finished}

\* Every configured pair of row r was handled in this run.
Handled(r) == PairsOf(r) = 1..NumPairs

SavedRows == {saves[i] : i \in 1..Len(saves)}

Last(seq) == seq[Len(seq)]

\* C1: while a run is in its row loop, the checkpoint writes it has made are
\* exactly the rows all of whose pairs were handled (the row standing right
\* before its write excepted), one write per row, and the file holds the last
\* of them; when the loop of a run that scanned a row is over, the file holds
\* the index of the last row of the snapshot.
C1_CheckpointPerRow ==
    (InLoop \/ pc = "email") =>
        /\ SavedRows = {r \in scanned : Handled(r) /\ ~(pc = "save" /\ r = row_index)}
        /\ Len(saves) = Cardinality(SavedRows)
        /\ saves # <<>> =>
              /\ progress_file.exists
              /\ progress_file.last_processed_row = Last(saves)
        /\ (pc = "email" /\ scanned # {}) =>
              /\ PersistedCheckpoint = Len(all_rows)
              /\ Len(saves) = Cardinality(scanned)

\* Two rows were scanned, one of their cells failed softly, and the loop is over.
C1_Witness ==
    /\ pc = "email"
    /\ Cardinality(scanned) = 2
    /\ stats.failed >= 1
    /\ PersistedCheckpoint = Len(all_rows)

\* C2: a run that started with checkpoint K makes no per-cell call (reference
\* read, fetch, transcription, cell write) for a row below K, and leaves the
\* rows below K of the sheet as they were.
C2_ResumeCorrectness ==
    outcome # "none" =>
        /\ \A r \in touched : r >= runStart
        /\ \A i \in 1..Len(writes) : writes[i][1] >= runStart
        /\ \A r \in 1..Len(sheet) : r < runStart => sheet[r] = sheet0[r]

\* A run that resumed at checkpoint 2 of a three-row sheet has written a cell.
C2_Witness ==
    /\ runStart = 2
    /\ Len(sheet0) = 3
    /\ 3 \in touched
    /\ writes # <<>>

\* C3: the checkpoint on disk is never below its value when the run started,
\* and the values a run writes never decrease.
C3_CheckpointMonotone ==
    outcome # "none" =>
        /\ PersistedCheckpoint >= runStart
        /\ \A i \in 1..Len(saves) : saves[i] >= runStart
        /\ \A i \in 1..Len(saves) : \A j \in 1..Len(saves) : i < j => saves[i] <= saves[j]

\* A run that follows a cut-short run, resumed at checkpoint 2, has written a
\* checkpoint.
C3_Witness ==
    /\ prev.outcome = "cut"
    /\ runStart = 2
    /\ saves # <<>>

\* The snapshot has fewer rows than the checkpoint and the run completed.
C3_ShortSnapshot ==
    /\ outcome = "completed"
    /\ runStart = 3
    /\ Len(sheet0) = 2

\* The raw reference of pair p of row r of sheet sh holds the asset-link
\* marker and the display value of its target cell is empty.
LooksPending(sh, r, p) ==
    LET f == sh[r].form[ANSWER_COLUMN_MAP[p][1]]
        d == sh[r].disp
        c == ANSWER_COLUMN_MAP[p][2]
    IN  /\ ~f.none
        /\ Contains(f.s, HYPERLINK)
        /\ (Len(d) >= c => d[c] = "")

\* C4: in a run that follows a completed run, no cell write succeeds: the
\* successful counter stays 0 and the sheet is as it was when the run began.
C4_Idempotence ==
    prev.outcome = "completed" =>
        /\ stats.successful = 0
        /\ writes = <<>>
        /\ sheet = sheet0

\* The second run over a three-row sheet is over, and a cell of the sheet
\* still holds a reference with an empty target.
C4_Witness ==
    /\ prev.outcome = "completed"
    /\ pc = "email"
    /\ Len(all_rows) = 3
    /\ \E r \in 2..Len(sheet) : \E p \in 1..NumPairs : LooksPending(sheet, r, p)

FaultKinds == {faults[i].kind : i \in 1..Len(faults)}

\* C5: every soft failure (reference without id, fetch, transcription, cell
\* write) left exactly one "Row <n>" entry and one count of failed, its cell
\* is terminal, and the loop went on: the rows before the current one are
\* handled in full, the current one up to the current pair, and when the loop
\* is over every row after the checkpoint has been handled.
C5_SoftFailureIsolation ==
    /\ \A i \in 1..Len(faults) : <<faults[i].row, faults[i].pair>> \in finished
    /\ (InLoop \/ pc = "email") =>
        /\ stats.failed = Len(faults)
        /\ Len(stats.errors) = Len(faults)
        /\ \A i \in 1..Len(faults) :
              /\ stats.errors[i].prefix = "Row"
              /\ stats.errors[i].row = faults[i].row
        /\ \A r \in scanned : (r # row_index \/ pc \in {"save", "email"}) => Handled(r)
        /\ (InLoop /\ pc # "save") => PairsOf(row_index) = 1..(pair - 1)
        /\ pc = "email" => scanned = {r \in 1..Len(all_rows) : r > runStart}

\* The first pair of row 2 failed in the fetch, a later pair of that row failed
\* in the parse, and a cell of row 3 was written after them; the loop is over.
C5_Witness ==
    /\ pc = "email"
    /\ Len(faults) = 2
    /\ faults[1] = [row |-> 2, pair |-> 1, kind |-> "fetch failed"]
    /\ faults[2].row = 2 /\ faults[2].kind = ParseDetail
    /\ writes # <<>> /\ writes[1][1] = 3

\* The pending cells of the rows after the checkpoint, by the sheet as it was
\* when the run began.
PendingAtStart ==
    {c \in {r \in 1..Len(sheet0) : r > runStart} \X (1..NumPairs) :
        LooksPending(sheet0, c[1], c[2])}

\* C6: when the loop is over, total_processed is the number N of pending
\* cells, successful the number S of accepted cell writes, failed and the
\* length of the error list the number F of failures, and S + F = N.
C6_StatisticsAccuracy ==
    pc = "email" =>
        /\ Len(writes) + Len(faults) = Cardinality(PendingAtStart)
        /\ stats.total_processed = Cardinality(PendingAtStart)
        /\ stats.successful = Len(writes)
        /\ stats.failed = Len(faults)
        /\ Len(stats.errors) = Len(faults)

\* A run ends with one success and three failures.
C6_Witness ==
    /\ pc = "email"
    /\ stats.successful = 1
    /\ stats.failed = 3
    /\ stats.total_processed = 4

\* C7: when a call of the opening sequence failed, the run scans no row,
\* makes no per-cell call, writes neither cell nor checkpoint, its counters
\* are zero when the notification is sent (the error list holds the one entry
\* of the failure), and a run that is not killed ends with exactly one
\* notification call.
C7_FatalShortCircuit ==
    openFail # "none" =>
        /\ pc \in {"email_fatal", "idle"}
        /\ scanned = {} /\ touched = {} /\ saves = <<>> /\ writes = <<>>
        /\ sheet = sheet0
        /\ pc = "email_fatal" =>
              /\ stats.total_processed = 0
              /\ stats.successful = 0
              /\ stats.failed = 0
              /\ stats.last_row = 0
              /\ Len(stats.errors) = 1
              /\ stats.errors[1].prefix # "Row"
              /\ emails = 0
        /\ (pc = "idle" /\ outcome # "killed") => emails = 1

\* The bulk read of a three-row sheet failed and the run has ended.
C7_Witness ==
    /\ openFail = "get_all_values"
    /\ outcome = "fatal"
    /\ emails = 1
    /\ Len(sheet) = 3

\* The step that handles the reference read of the current cell.
C8_Step ==
    (pc = "cell" /\ pc' # "idle") =>
        LET f == sheet[row_index].form[AudioCol]
            d == all_rows[row_index]
            target == IF Len(d) >= AnswerCol THEN d[AnswerCol] ELSE ""
            pending == (~f.none) /\ Contains(f.s, HYPERLINK) /\ target = ""
        IN  /\ pending <=> (stats'.total_processed = stats.total_processed + 1)
            /\ pending => (pc' = "fetch" \/ stats'.failed = stats.failed + 1)
            /\ ~pending =>
                  /\ stats' = stats
                  /\ pc' \in {"cell", "save"}
                  /\ <<row_index, pair>> \in finished'
                  /\ sheet' = sheet
                  /\ faults' = faults /\ writes' = writes

\* C8: a cell is counted and its resolution attempted iff the reference read
\* live holds the marker and the target cell is empty in the snapshot; any
\* other cell is passed over with no fetch, transcription, write or change
\* of the statistics.
C8_PendingClassification == [][C8_Step]_vars

\* In a row whose second pair holds a reference and an answer, the first pair
\* was counted and the second was passed over.
C8_Witness ==
    /\ pc = "cell"
    /\ pair = 3
    /\ sheet0[row_index] = RowA
    /\ stats.total_processed = 1
    /\ <<row_index, 2>> \in finished

\* C9: a run that follows a run cut short scans again at most the row that
\* was under way, and that row from its first pair.
C9_CrashRecoveryBound ==
    prev.outcome = "cut" =>
        /\ (scanned \cap prev.scanned) \subseteq {prev.row}
        /\ \A r \in scanned \cap prev.scanned : PairsOf(r) = 1..Cardinality(PairsOf(r))

\* The earlier run was cut short in its second row; this run handled that row
\* again, in full.
C9_Witness ==
    /\ prev.outcome = "cut"
    /\ prev.scanned = {2, 3}
    /\ prev.row = 3
    /\ 3 \in scanned
    /\ Handled(3)

\* C10: once a run has written the checkpoint, the file holds the last value
\* R it wrote and every pair of every row it scanned up to R is terminal;
\* this stays so after the run ends or is killed.
C10_CheckpointNotAhead ==
    saves # <<>> =>
        /\ progress_file = [exists |-> TRUE, last_processed_row |-> Last(saves)]
        /\ \A r \in scanned : r <= Last(saves) => Handled(r)

\* A run was killed in a row after its last checkpoint, having written a cell
\* of that row.
C10_Witness ==
    /\ outcome = "killed"
    /\ saves # <<>>
    /\ stoppedRow > Last(saves)
    /\ \E i \in 1..Len(writes) : writes[i][1] = stoppedRow

\* C11: a run that obtained its clients and was not killed ends having sent
\* exactly one summary notification, and once it has begun its row loop it
\* ends only by completing the loop over the whole snapshot, whichever
\* per-cell call failed.
C11_OneSummaryPerRun ==
    (pc = "idle" /\ outcome \notin {"none", "authfail", "killed"}) =>
        /\ emails = 1
        /\ (openFail = "none" /\ Len(sheet0) > runStart) =>
              /\ outcome = "completed"
              /\ scanned = (runStart + 1)..Len(sheet0)
              /\ \A r \in scanned : Handled(r)

\* C12: a run that could not open or bulk-read the row source exits with a
\* non-zero status, and a run whose row loop completed exits with status 0.
C12_ExitStatusTellsFatal ==
    /\ outcome = "fatal" => (exit_status # <<>> /\ exit_status # <<0>>)
    /\ outcome = "completed" => exit_status = <<0>>

\* C13 as stated: when the row loop of a run that started with checkpoint K
\* is over, the rows it scanned are the rows K through the last row of the
\* snapshot.
C13_ScanFromCheckpointRow ==
    pc = "email" => scanned = {r \in 1..Len(all_rows) : r >= runStart}

\* C13: a run that started with checkpoint K takes K as its start value and
\* scans the rows K+1 through the last row of the snapshot, row K itself not
\* included: each once, in ascending order of row index (the checkpoint
\* writes follow that order), the pairs of a row in the order of the
\* configuration.
C13_ScanRangeAndOrder ==
    (InLoop \/ pc = "email") =>
        /\ start_row = runStart
        /\ scanned = {r \in 1..Len(all_rows) :
                        r > runStart /\ (pc = "email" \/ r <= row_index)}
        /\ \A i \in 1..Len(saves) : saves[i] = runStart + i
        /\ \A r \in scanned : (pc = "email" \/ r < row_index) => Handled(r)
        /\ InLoop => PairsOf(row_index) = 1..(IF pc = "save" THEN NumPairs ELSE pair - 1)

\* A run without a checkpoint file went through a three-row snapshot: rows 2
\* and 3, in that order, and not row 1.
C13_Witness ==
    /\ pc = "email"
    /\ runStart = 1
    /\ Len(all_rows) = 3
    /\ saves = <<2, 3>>
    /\ 1 \notin scanned

\* Positions in the call log of this run of the calls of kind op for cell <<r, p>>.
CallsOf(r, p, op) ==
    {i \in 1..Len(calls) : calls[i].row = r /\ calls[i].pair = p /\ calls[i].op = op}

\* The call at position i of the log directly follows the successful call of
\* kind op for the same cell.
FollowsOk(i, op) ==
    /\ i > 1
    /\ calls[i - 1] = [op |-> op, row |-> calls[i].row, pair |-> calls[i].pair, ok |-> TRUE]

\* Cells this run classified as pending: the ones it took to the id extraction.
PendingCells == {<<calls[i].row, calls[i].pair>> : i \in {j \in 1..Len(calls) : calls[j].op = "parse"}}

FaultsOf(r, p) == {i \in 1..Len(faults) : faults[i].row = r /\ faults[i].pair = p}

WritesOf(r, p) == {i \in 1..Len(writes) : writes[i][1] = r /\ writes[i][2] = ANSWER_COLUMN_MAP[p][2]}

\* Each step of a cell is made at most once, and only right after the
\* successful step before it.
StepsInOrder ==
    /\ \A i \in 1..Len(calls) : \A j \in 1..Len(calls) :
          (calls[i].row = calls[j].row /\ calls[i].pair = calls[j].pair
             /\ calls[i].op = calls[j].op) => i = j
    /\ \A i \in 1..Len(calls) :
          /\ calls[i].op = "parse" => FollowsOk(i, "read")
          /\ calls[i].op = "fetch" => FollowsOk(i, "parse")
          /\ calls[i].op = "transcribe" => FollowsOk(i, "fetch")
          /\ calls[i].op = "write" => FollowsOk(i, "transcribe")
    /\ \A i \in 1..Len(writes) : \E p \in 1..NumPairs :
          /\ writes[i][2] = ANSWER_COLUMN_MAP[p][2]
          /\ \E j \in CallsOf(writes[i][1], p, "write") : calls[j].ok
    /\ \A c \in finished : c \notin PendingCells =>
          FaultsOf(c[1], c[2]) = {} /\ WritesOf(c[1], c[2]) = {}

\* C14 as stated: a pending cell this run brought to an end was written, or
\* failed in its id extraction, its fetch or its transcription, and exactly
\* one of these; its steps come at most once and in order.
C14_FourTerminalStates ==
    /\ StepsInOrder
    /\ \A c \in finished \cap PendingCells :
          /\ Cardinality(FaultsOf(c[1], c[2])) + Cardinality(WritesOf(c[1], c[2])) = 1
          /\ \A i \in FaultsOf(c[1], c[2]) :
                faults[i].kind \in {ParseDetail, "fetch failed", "transcription failed"}

\* C14: a pending cell this run brought to an end was written, or failed in
\* its id extraction, its fetch, its transcription or its cell write, and
\* exactly one of these; the reference is parsed, the asset fetched, the
\* transcription requested and the cell written at most once each, every
\* step right after the success of the step before it, so the write comes
\* before the next pair is read.
C14_CellStateMachine ==
    /\ StepsInOrder
    /\ \A c \in finished \cap PendingCells :
          /\ Cardinality(FaultsOf(c[1], c[2])) + Cardinality(WritesOf(c[1], c[2])) = 1
          /\ \A i \in FaultsOf(c[1], c[2]) :
                \/ faults[i].kind = ParseDetail /\ CallsOf(c[1], c[2], "fetch") = {}
                \/ faults[i].kind = "fetch failed" /\ CallsOf(c[1], c[2], "transcribe") = {}
                \/ faults[i].kind = "transcription failed" /\ CallsOf(c[1], c[2], "write") = {}
                \/ /\ faults[i].kind = "update_cell failed"
                   /\ \E j \in CallsOf(c[1], c[2], "write") : ~calls[j].ok
          /\ \A i \in WritesOf(c[1], c[2]) :
                \E j \in CallsOf(c[1], c[2], "write") : calls[j].ok
    /\ \A c \in PendingCells \ finished : c = <<row_index, pair>> \/ pc = "idle"

\* In one run a cell failed in its id extraction, the write of a transcribed
\* cell was refused, and another cell was written; the run is past them.
C14_Witness ==
    /\ \E i \in 1..Len(faults) : faults[i].kind = ParseDetail
    /\ \E i \in 1..Len(faults) : faults[i].kind = "update_cell failed"
    /\ writes # <<>>
    /\ pc = "email"

\* Cells the calls appended to the call log by the step are made for.
NewlyCalled ==
    IF calls' = calls THEN {}
    ELSE IF Len(calls') > Len(calls) /\ SubSeq(calls', 1, Len(calls)) = calls
    THEN {<<calls'[i].row, calls'[i].pair>> : i \in (Len(calls) + 1)..Len(calls')}
    ELSE {<<calls'[i].row, calls'[i].pair>> : i \in 1..Len(calls')}

\* Every soft failure of the run lies in a row whose checkpoint the run has
\* written, or in the row the loop stands in, or the run was cut short.
FailuresCheckpointed ==
    \A i \in 1..Len(faults) :
        \/ faults[i].row \in SavedRows
        \/ InLoop /\ faults[i].row = row_index
        \/ outcome \in {"killed", "crashed"} /\ faults[i].row = stoppedRow

C15_Step ==
    /\ NewlyCalled \cap settled = {}
    /\ NewlyCalled \cap crashLeft = {}
    /\ FailuresCheckpointed'

\* C15: no run ever makes a per-cell call for a cell that failed softly in a
\* run which then wrote the checkpoint of the cell's row, nor for one that
\* failed softly in a run which ended otherwise than by a kill.
C15_SoftFailuresNotRetried == [][C15_Step]_vars

C15_CutStep ==
    /\ NewlyCalled \cap settled = {}
    /\ FailuresCheckpointed'

\* No run ever makes a per-cell call for a cell that failed softly in a run
\* which then wrote the checkpoint of the cell's row; a soft failure is left
\* in a row without its checkpoint only by a run that was cut short in that
\* row, by a kill or by an uncaught exception.
C15_RetriedOnlyAfterCut == [][C15_CutStep]_vars

\* A run resumed at checkpoint 2 is at work on row 3, and a cell of row 2
\* that failed in an earlier, cut-short run is settled.
C15_Witness ==
    /\ prev.outcome = "cut"
    /\ runStart = 2
    /\ row_index = 3
    /\ calls # <<>>
    /\ \E c \in settled : c[1] = 2

\* The step is a cell write the sheet accepted.
IsWriteStep == writes' # writes /\ writes' # <<>>

\* The cell <<row, col>> the step writes.
WrittenCell == <<Last(writes')[1], Last(writes')[2]>>

\* The cell the step writes is empty in the live sheet and was empty in the
\* snapshot of the run.
WritesEmptyCell ==
    /\ sheet[WrittenCell[1]].disp[WrittenCell[2]] = ""
    /\ CellOrEmpty(all_rows[WrittenCell[1]], WrittenCell[2]) = ""
    /\ sheet0[WrittenCell[1]].disp[WrittenCell[2]] = ""

C16_AnyWriteStep == IsWriteStep => (WritesEmptyCell /\ WrittenCell \notin written)

\* C16 as stated: over all runs, killed and restarted ones included, a cell
\* write goes to a cell that is empty and was empty in the snapshot of the
\* run, and to a cell no run has written before.
C16_AtMostOneWrite == [][C16_AnyWriteStep]_vars

C16_Step == IsWriteStep => (WritesEmptyCell /\ WrittenCell \notin filled)

\* C16: over all runs, killed and restarted ones included, a cell write goes
\* to a cell that is empty and was empty in the snapshot of the run, and to
\* a cell no run has written a non-empty text to: a cell gets at most one
\* non-empty write.
C16_NonEmptyNeverRewritten == [][C16_Step]_vars

\* A run that follows a cut-short run has written a text to a cell that an
\* earlier run had written an empty text to.
C16_Witness ==
    /\ prev.outcome = "cut"
    /\ Len(writes) = 1
    /\ <<Last(writes)[1], Last(writes)[2]>> \in rewritten \cap filled
    /\ Last(writes)[3] # ""

\* C17: in a run that could not open or bulk-read the row source, the sheet
\* and the checkpoint file are as they were when the run began, load_progress
\* was not called, and no reference read, fetch, transcription, cell write or
\* checkpoint write was made; this stays so after the run has ended.
C17_FatalPathFrame ==
    openFail # "none" =>
        /\ sheet = sheet0
        /\ progress_file = file0
        /\ ~loaded
        /\ saves = <<>>
        /\ calls = <<>>
        /\ writes = <<>>
        /\ touched = {}

\* A run over a sheet with a pending cell, begun with checkpoint 2 on disk,
\* ended on the fatal path.
C17_Witness ==
    /\ outcome = "fatal"
    /\ openFail = "worksheet"
    /\ file0 = save_progress(2)
    /\ Len(sheet) = 3
    /\ \E p \in 1..NumPairs : LooksPending(sheet, 3, p)

\* C18: with no checkpoint file and with every checkpoint value a run has
\* saved, a run starts from a checkpoint of 1 or more: its loop stands at row
\* 2 or beyond, row 1 is not scanned, no per-cell call is made for it, no
\* cell of it is counted or written, and the header row of the sheet stays
\* as it was.
C18_HeaderNeverScanned ==
    outcome # "none" =>
        /\ runStart >= 1
        /\ progress_file.exists => progress_file.last_processed_row >= 2
        /\ InLoop => (row_index >= 2 /\ stats.last_row >= 2)
        /\ 1 \notin scanned \cup touched
        /\ \A i \in 1..Len(calls) : calls[i].row >= 2
        /\ \A i \in 1..Len(faults) : faults[i].row >= 2
        /\ \A i \in 1..Len(writes) : writes[i][1] >= 2
        /\ \A c \in written : c[1] >= 2
        /\ Len(sheet) >= 1 => sheet[1] = HeaderRow

\* The first run there ever was, with no checkpoint file, has read cells of
\* row 2 and counted one of them.
C18_Witness ==
    /\ file0 = NoFile
    /\ prev = NoPrev
    /\ pc = "cell"
    /\ row_index = 2
    /\ pair = 3
    /\ stats.total_processed = 1

C19_Step ==
    /\ (saves' # saves /\ saves' # <<>>) => (emails = 0 /\ emails' = 0)
    /\ emails' > emails => (pc = "email" => Len(saves) = Cardinality(scanned))
    /\ (pc \in {"email", "email_fatal"} /\ pc' = "idle" /\ outcome' # "killed") =>
          /\ emails' = emails + 1
          /\ mailResult' \in {"unconfigured", "sent", "smtp_failed"}
          /\ outcome' = (IF pc = "email" THEN "completed" ELSE "fatal")
          /\ exit_status' = <<0>>
          /\ finalStats' = stats
          /\ sheet' = sheet
          /\ progress_file' = progress_file
          /\ writes' = writes
          /\ saves' = saves

\* C19: no checkpoint write of a run comes after its summary notification,
\* which is attempted when every scanned row has its checkpoint; and
\* whether the notification is sent, fails or is skipped for want of
\* configuration, main() returns after it with the stats dict, the sheet, the
\* cell writes and the checkpoint file as they were before it.
C19_NotificationFailuresSoft == [][C19_Step]_vars

\* A run that wrote a cell and a checkpoint and counted a failure has ended
\* normally although its notification failed in the SMTP exchange.
C19_Witness ==
    /\ mailResult = "smtp_failed"
    /\ outcome = "completed"
    /\ exit_status = <<0>>
    /\ writes # <<>>
    /\ saves # <<>>
    /\ finalStats.failed >= 1

\* successful + failed == total_processed in the stats dict st.
Balanced(st) == st.successful + st.failed = st.total_processed

\* The stats dict b is nowhere below the stats dict a.
NotBelow(a, b) ==
    /\ b.total_processed >= a.total_processed
    /\ b.successful >= a.successful
    /\ b.failed >= a.failed
    /\ Len(b.errors) >= Len(a.errors)

C20_Step ==
    /\ pc' \in {"cell", "save", "email", "email_fatal"} => Balanced(stats')
    /\ Balanced(finalStats')
    /\ (pc # "idle" /\ pc' # "idle") => NotBelow(stats, stats')
    /\ (pc # "idle" /\ finalStats' # finalStats) => NotBelow(stats, finalStats')
    /\ (pc # "idle" /\ pc' # "idle") =>
          LET ds == stats'.successful - stats.successful
              df == stats'.failed - stats.failed
              done == finished' \ finished
          IN  /\ ds \in {0, 1} /\ df \in {0, 1}
              /\ ds + df = Cardinality(done \cap PendingCells')
              /\ Cardinality(done) <= 1
              /\ stats'.total_processed - stats.total_processed
                    = Cardinality(PendingCells' \ PendingCells)

\* C20: whenever the row loop stands between two column pairs, and when
\* main() ends, on the fatal path too, successful + failed equals
\* total_processed; a pending cell adds one to total_processed when it is
\* found and, when it is done, one to exactly one of successful and failed; a
\* cell that is not pending changes none of them; and no counter and not the
\* length of the error list goes down while the run lasts.
C20_CounterInvariant == [][C20_Step]_vars

\* A run is over its loop with two cells written and one failed, three
\* counted, and one error entry.
C20_Witness ==
    /\ pc = "email"
    /\ stats.total_processed = 3
    /\ stats.successful = 2
    /\ stats.failed = 1
    /\ Len(stats.errors) = 1

====
